---- MODULE Spec2Model ----
(***************************************************************************)
(* A model of the serial terminal of src/src/main.rs: the ComPortApp       *)
(* state, the reader threads spawned by connect_port, the mpsc channel     *)
(* between them and the redraw handler ComPortApp::update.                 *)
(*                                                                         *)
(* Strings are modelled as Rust holds them: sequences of UTF-8 bytes, so   *)
(* that len(), split_off() and String::from_utf8 behave as in the code.    *)
(* The egui widgets are the environment: each redraw delivers at most one  *)
(* user event (a click, a selection, an edit of the input line). The       *)
(* output area is taken as display only, and the baud rate, which only     *)
(* open() reads, is part of what makes open() succeed or fail.             *)
(***************************************************************************)
EXTENDS Integers, Sequences, FiniteSets, TLC

VARIABLES
    status,           \* "running", or "panicked" once the main thread has panicked
    available_ports,  \* ComPortApp.available_ports (Vec<String>)
    selected_port,    \* ComPortApp.selected_port (Option<String>)
    input_buffer,     \* ComPortApp.input_buffer (String, as bytes)
    output_buffer,    \* ComPortApp.output_buffer (String, as bytes)
    port_handle,      \* ComPortApp.port_handle (Option<Box<dyn SerialPort>>)
    chan,             \* the mpsc channel (tx, rx): chunks sent and not yet received
    workers,          \* the threads spawned by connect_port, in spawn order
    nreads,           \* history: number of reads that returned text
    appended,         \* history: ids of the chunks appended to output_buffer, in order
    last              \* history: the step taken last, the branch it took, what it
                      \* returned and the call of port.write it made, if any

vars == <<status, available_ports, selected_port, input_buffer, output_buffer,
          port_handle, chan, workers, nreads, appended, last>>

----------------------------------------------------------------------------
(* Bounds of the model *)

MaxReads == 2

MaxConnects == 2

(* Program constants *)

OutputMax == 1000

SerialBufLen == 1000

None == "None"

Unit == "()"

(* The serial ports the OS may report. *)
Ports == {"COM1"}

Rep(b, n) == [i \in 1..n |-> b]

(* What a read may deliver: "e-acute" (two bytes), a byte that is not     *)
(* UTF-8, and 999 times "b", which brings the buffer to its maximum.       *)
DeviceChunks == {<<195, 169>>, <<255>>, Rep(98, SerialBufLen - 1)}

(* What the user may have typed in the input line. *)
InputTexts == {<<>>, <<104>>}

(* The lists available_ports() may return. *)
PortLists == {<<>>, <<"COM1">>}

----------------------------------------------------------------------------
(* Rust's str and String operations, on bytes *)

IsContinuationByte(b) == b \in 128..191

(* str::is_char_boundary *)
is_char_boundary(s, index) ==
    \/ index = 0
    \/ index = Len(s)
    \/ index < Len(s) /\ ~IsContinuationByte(s[index + 1])

(* The length in bytes of the well-formed UTF-8 sequence starting at      *)
(* s[i], or 0 when there is none (Unicode table 3-7).                      *)
Utf8SeqLen(s, i) ==
    LET n == Len(s)
        b0 == s[i]
        Cont(k) == i + k <= n /\ IsContinuationByte(s[i + k])
        In(k, lo, hi) == i + k <= n /\ s[i + k] \in lo..hi
    IN  IF b0 \in 0..127 THEN 1
        ELSE IF b0 \in 194..223 THEN (IF Cont(1) THEN 2 ELSE 0)
        ELSE IF b0 = 224 THEN (IF In(1, 160, 191) /\ Cont(2) THEN 3 ELSE 0)
        ELSE IF b0 \in 225..236 \/ b0 \in 238..239
             THEN (IF Cont(1) /\ Cont(2) THEN 3 ELSE 0)
        ELSE IF b0 = 237 THEN (IF In(1, 128, 159) /\ Cont(2) THEN 3 ELSE 0)
        ELSE IF b0 = 240
             THEN (IF In(1, 144, 191) /\ Cont(2) /\ Cont(3) THEN 4 ELSE 0)
        ELSE IF b0 \in 241..243
             THEN (IF Cont(1) /\ Cont(2) /\ Cont(3) THEN 4 ELSE 0)
        ELSE IF b0 = 244
             THEN (IF In(1, 128, 143) /\ Cont(2) /\ Cont(3) THEN 4 ELSE 0)
        ELSE 0

(* String::from_utf8(bytes).is_ok(): the bytes split into well-formed      *)
(* sequences, that is, the first byte starts one and every sequence ends   *)
(* where the next one starts or where the bytes end.                       *)
from_utf8_ok(bytes) ==
    \A i \in 1..Len(bytes) :
        IF IsContinuationByte(bytes[i])
        THEN i > 1
        ELSE LET k == Utf8SeqLen(bytes, i)
             IN  /\ k > 0
                 /\ i + k <= Len(bytes) => ~IsContinuationByte(bytes[i + k])

----------------------------------------------------------------------------
(* update, lines 101-106: the drain loop *)

(* The body of the loop: push_str, then the trim. split_off panics when   *)
(* the cut is not on a char boundary, before it changes the string.       *)
push_and_trim(buf, data) ==
    LET pushed == buf \o data
        at == Len(pushed) - OutputMax
    IN  IF Len(pushed) > OutputMax
        THEN IF is_char_boundary(pushed, at)
             THEN [buf |-> SubSeq(pushed, at + 1, Len(pushed)), panicked |-> FALSE]
             ELSE [buf |-> pushed, panicked |-> TRUE]
        ELSE [buf |-> pushed, panicked |-> FALSE]

(* while let Ok(data) = self.rx.try_recv() { ... }: every queued chunk in *)
(* arrival order, up to the one whose trim panics.                         *)
RECURSIVE drain(_, _, _)
drain(buf, queue, ids) ==
    IF queue = <<>>
    THEN [buf |-> buf, rest |-> <<>>, ids |-> ids, panicked |-> FALSE]
    ELSE LET r == push_and_trim(buf, Head(queue).data)
             seen == Append(ids, Head(queue).id)
         IN  IF r.panicked
             THEN [buf |-> r.buf, rest |-> Tail(queue), ids |-> seen, panicked |-> TRUE]
             ELSE drain(r.buf, Tail(queue), seen)

Drained == drain(output_buffer, chan, appended)

(* The start of every redraw that gets past the drain loop. *)
DrainStep ==
    /\ status = "running"
    /\ ~Drained.panicked
    /\ output_buffer' = Drained.buf
    /\ chan' = Drained.rest
    /\ appended' = Drained.ids

Did(op, branch) == [op |-> op, branch |-> branch, ret |-> Unit, write |-> None]

----------------------------------------------------------------------------
(* The methods of ComPortApp *)

(* refresh_ports, lines 44-51; ports is what available_ports() returned,  *)
(* <<>> also standing for its Err.                                         *)
refresh_ports(ports) ==
    /\ available_ports' = ports
    /\ last' = Did("refresh_ports", "listed")

(* What open() and then try_clone() may return. *)
OpenResults == {[ok |-> TRUE, clone_ok |-> TRUE], [ok |-> TRUE, clone_ok |-> FALSE],
                [ok |-> FALSE, clone_ok |-> FALSE]}

(* A thread that begins by sending a greeting line of its own. *)
NewWorker_greets(port) == [pc |-> "send", port |-> port, s |-> <<62>>, id |-> 0]

NewWorker(port) == [pc |-> "read", port |-> port, s |-> <<>>, id |-> 0]

(* connect_port storing the name it tried although open() failed. *)
connect_port_keeps_handle(open) ==
    IF selected_port = None
    THEN /\ UNCHANGED <<status, port_handle, workers>>
         /\ last' = Did("connect_port", "no_port_selected")
    ELSE IF ~open.ok
    THEN /\ port_handle' = selected_port
         /\ UNCHANGED <<status, workers>>
         /\ last' = Did("connect_port", "open_err")
    ELSE IF ~open.clone_ok
    THEN /\ port_handle' = selected_port
         /\ status' = "panicked"
         /\ UNCHANGED workers
         /\ last' = [Did("connect_port", "clone_err") EXCEPT !.ret = "panic"]
    ELSE /\ port_handle' = selected_port
         /\ workers' = Append(workers, NewWorker(selected_port))
         /\ UNCHANGED status
         /\ last' = Did("connect_port", "spawned")

(* connect_port spawning a reader for every open that succeeds without   *)
(* storing the handle, so that the session still reads as disconnected.   *)
connect_port_forgets_handle(open) ==
    IF selected_port = None
    THEN /\ UNCHANGED <<status, port_handle, workers>>
         /\ last' = Did("connect_port", "no_port_selected")
    ELSE IF ~open.ok
    THEN /\ UNCHANGED <<status, port_handle, workers>>
         /\ last' = Did("connect_port", "open_err")
    ELSE IF ~open.clone_ok
    THEN /\ port_handle' = selected_port
         /\ status' = "panicked"
         /\ UNCHANGED workers
         /\ last' = [Did("connect_port", "clone_err") EXCEPT !.ret = "panic"]
    ELSE /\ UNCHANGED port_handle
         /\ workers' = Append(workers, NewWorker(selected_port))
         /\ UNCHANGED status
         /\ last' = Did("connect_port", "spawned")

(* connect_port, lines 53-83. *)
connect_port(open) ==
    IF selected_port = None
    THEN /\ UNCHANGED <<status, port_handle, workers>>
         /\ last' = Did("connect_port", "no_port_selected")
    ELSE IF ~open.ok
    THEN /\ UNCHANGED <<status, port_handle, workers>>
         /\ last' = Did("connect_port", "open_err")
    ELSE IF ~open.clone_ok
    THEN /\ port_handle' = selected_port
         /\ status' = "panicked"
         /\ UNCHANGED workers
         /\ last' = [Did("connect_port", "clone_err") EXCEPT !.ret = "panic"]
    ELSE /\ port_handle' = selected_port
         /\ workers' = Append(workers, NewWorker(selected_port))
         /\ UNCHANGED status
         /\ last' = Did("connect_port", "spawned")

(* disconnect_port taking the handle out with unwrap(), which panics when *)
(* there is none.                                                         *)
disconnect_port_unwraps ==
    /\ port_handle' = None
    /\ last' = IF port_handle = None
               THEN [Did("disconnect_port", "was_none") EXCEPT !.ret = "panic"]
               ELSE Did("disconnect_port", "dropped")

(* disconnect_port, lines 85-87. *)
disconnect_port ==
    /\ port_handle' = None
    /\ last' = Did("disconnect_port", IF port_handle = None THEN "was_none" ELSE "dropped")

(* What write() may return: Ok(n) with n bytes taken, or Err. *)
WriteResults(buf) == {[ok |-> TRUE, n |-> n] : n \in 0..Len(buf)} \cup {[ok |-> FALSE, n |-> 0]}

(* send_data clearing the input line although there is no port. *)
send_data_clears_unsent(wr) ==
    IF port_handle = None
    THEN /\ input_buffer' = <<>>
         /\ last' = Did("send_data", "not_connected")
    ELSE LET call == [port |-> port_handle, bytes |-> input_buffer, result |-> wr]
         IN  IF wr.ok
             THEN /\ input_buffer' = <<>>
                  /\ last' = [Did("send_data", "write_ok") EXCEPT !.write = call]
             ELSE /\ UNCHANGED input_buffer
                  /\ last' = [Did("send_data", "write_err") EXCEPT !.write = call]

(* send_data keeping in the input line the bytes a partial write did not *)
(* take.                                                                  *)
send_data_keeps_unsent_tail(wr) ==
    IF port_handle = None
    THEN /\ UNCHANGED input_buffer
         /\ last' = Did("send_data", "not_connected")
    ELSE LET call == [port |-> port_handle, bytes |-> input_buffer, result |-> wr]
         IN  IF wr.ok
             THEN /\ input_buffer' = SubSeq(input_buffer, wr.n + 1, Len(input_buffer))
                  /\ last' = [Did("send_data", "write_ok") EXCEPT !.write = call]
             ELSE /\ UNCHANGED input_buffer
                  /\ last' = [Did("send_data", "write_err") EXCEPT !.write = call]

(* send_data clearing the input line although write() failed. *)
send_data_clears_on_err(wr) ==
    IF port_handle = None
    THEN /\ UNCHANGED input_buffer
         /\ last' = Did("send_data", "not_connected")
    ELSE LET call == [port |-> port_handle, bytes |-> input_buffer, result |-> wr]
         IN  IF wr.ok
             THEN /\ input_buffer' = <<>>
                  /\ last' = [Did("send_data", "write_ok") EXCEPT !.write = call]
             ELSE /\ input_buffer' = <<>>
                  /\ last' = [Did("send_data", "write_err") EXCEPT !.write = call]

(* send_data, lines 89-95. *)
send_data(wr) ==
    IF port_handle = None
    THEN /\ UNCHANGED input_buffer
         /\ last' = Did("send_data", "not_connected")
    ELSE LET call == [port |-> port_handle, bytes |-> input_buffer, result |-> wr]
         IN  IF wr.ok
             THEN /\ input_buffer' = <<>>
                  /\ last' = [Did("send_data", "write_ok") EXCEPT !.write = call]
             ELSE /\ UNCHANGED input_buffer
                  /\ last' = [Did("send_data", "write_err") EXCEPT !.write = call]

----------------------------------------------------------------------------
(* update, lines 99-171: one redraw, with the user event it delivers *)

UpdateIdle ==
    /\ DrainStep
    /\ last' = Did("update", "idle")
    /\ UNCHANGED <<status, available_ports, selected_port, input_buffer, port_handle,
                   workers, nreads>>

(* The drain loop panics in split_off: the main thread unwinds. *)
UpdatePanic ==
    /\ status = "running"
    /\ Drained.panicked
    /\ status' = "panicked"
    /\ output_buffer' = Drained.buf
    /\ chan' = Drained.rest
    /\ appended' = Drained.ids
    /\ last' = [Did("update", "split_off") EXCEPT !.ret = "panic"]
    /\ UNCHANGED <<available_ports, selected_port, input_buffer, port_handle,
                   workers, nreads>>

(* lines 110-112 *)
UpdateRefresh ==
    /\ DrainStep
    /\ \E ports \in PortLists : refresh_ports(ports)
    /\ UNCHANGED <<status, selected_port, input_buffer, port_handle, workers, nreads>>

(* lines 114-120 *)
UpdateSelectPort ==
    /\ DrainStep
    /\ \E k \in 1..Len(available_ports) : selected_port' = available_ports[k]
    /\ last' = Did("update", "select_port")
    /\ UNCHANGED <<status, available_ports, input_buffer, port_handle, workers, nreads>>

(* A connect button that is there whatever port_handle holds. *)
connect_offered_always == TRUE

(* line 130: the connect button is there only while port_handle is None *)
connect_offered == port_handle = None

(* lines 130-133 *)
UpdateConnect ==
    /\ DrainStep
    /\ connect_offered
    /\ \E open \in OpenResults :
          /\ open.ok /\ selected_port # None => Len(workers) < MaxConnects
          /\ connect_port(open)
    /\ UNCHANGED <<available_ports, selected_port, input_buffer, nreads>>

(* lines 134-137: the disconnect button is there otherwise *)
UpdateDisconnect ==
    /\ DrainStep
    /\ ~connect_offered
    /\ disconnect_port
    /\ UNCHANGED <<status, available_ports, selected_port, input_buffer, workers, nreads>>

(* lines 158-161: the input line *)
UpdateEditInput ==
    /\ DrainStep
    /\ \E text \in InputTexts : text # input_buffer /\ input_buffer' = text
    /\ last' = Did("update", "edit_input")
    /\ UNCHANGED <<status, available_ports, selected_port, port_handle, workers, nreads>>

(* lines 163-165 *)
UpdateSend ==
    /\ DrainStep
    /\ \E wr \in WriteResults(input_buffer) : send_data(wr)
    /\ UNCHANGED <<status, available_ports, selected_port, port_handle, workers, nreads>>

----------------------------------------------------------------------------
(* The reader thread, lines 64-76 *)

Workers == 1..Len(workers)

(* What port.read may return, Ok(t) with the t bytes read or Err, and for  *)
(* Ok what String::from_utf8 then says of those bytes.                     *)
ReadResults ==
    {[ok |-> TRUE, bytes |-> b, err |-> "", utf8 |-> from_utf8_ok(b)] :
        b \in DeviceChunks \cup {<<>>}}
    \cup {[ok |-> FALSE, bytes |-> <<>>, err |-> e, utf8 |-> FALSE] :
        e \in {"TimedOut", "BrokenPipe"}}

ReadBranch(r) ==
    IF ~r.ok THEN r.err
    ELSE IF Len(r.bytes) = 0 THEN "zero"
    ELSE IF r.utf8 THEN "text" ELSE "not_utf8"

(* The thread unwrapping String::from_utf8: bytes that are not UTF-8 end  *)
(* it with a panic.                                                       *)
WorkerRead_unwraps(i) ==
    /\ status = "running"
    /\ i \in Workers
    /\ workers[i].pc = "read"
    /\ \E r \in ReadResults :
          /\ Len(r.bytes) <= SerialBufLen
          /\ ReadBranch(r) = "text" => nreads < MaxReads
          /\ nreads' = IF ReadBranch(r) = "text" THEN nreads + 1 ELSE nreads
          /\ workers' = [workers EXCEPT ![i] =
                IF ReadBranch(r) = "text"
                THEN [@ EXCEPT !.pc = "send", !.s = r.bytes, !.id = nreads + 1]
                ELSE IF ReadBranch(r) = "not_utf8"
                THEN [@ EXCEPT !.pc = "panicked"]
                ELSE @]
          /\ last' = Did("worker_read", ReadBranch(r))
    /\ UNCHANGED <<status, available_ports, selected_port, input_buffer, output_buffer,
                   port_handle, chan, appended>>

(* lines 67-69 and 74: port.read and String::from_utf8; when there is    *)
(* nothing to send the thread sleeps and starts the next iteration.       *)
WorkerRead(i) ==
    /\ status = "running"
    /\ i \in Workers
    /\ workers[i].pc = "read"
    /\ \E r \in ReadResults :
          /\ Len(r.bytes) <= SerialBufLen
          /\ ReadBranch(r) = "text" => nreads < MaxReads
          /\ nreads' = IF ReadBranch(r) = "text" THEN nreads + 1 ELSE nreads
          /\ workers' = [workers EXCEPT ![i] =
                IF ReadBranch(r) = "text"
                THEN [@ EXCEPT !.pc = "send", !.s = r.bytes, !.id = nreads + 1]
                ELSE @]
          /\ last' = Did("worker_read", ReadBranch(r))
    /\ UNCHANGED <<status, available_ports, selected_port, input_buffer, output_buffer,
                   port_handle, chan, appended>>

(* lines 70 and 74: tx.send(s).unwrap(), where send returns Ok because rx *)
(* lives in the app; then the sleep and the next iteration.               *)
WorkerSend(i) ==
    /\ status = "running"
    /\ i \in Workers
    /\ workers[i].pc = "send"
    /\ chan' = Append(chan, [id |-> workers[i].id, from |-> i, data |-> workers[i].s])
    /\ workers' = [workers EXCEPT ![i] = [@ EXCEPT !.pc = "read", !.s = <<>>, !.id = 0]]
    /\ last' = Did("worker_send", "sent")
    /\ UNCHANGED <<status, available_ports, selected_port, input_buffer, output_buffer,
                   port_handle, nreads, appended>>

Worker(i) == WorkerRead(i) \/ WorkerSend(i)

WorkerStep == \E i \in Workers : Worker(i)

----------------------------------------------------------------------------
(* ComPortApp::new, lines 19-42: default(), then refresh_ports() *)
Init ==
    /\ status = "running"
    /\ available_ports \in PortLists
    /\ selected_port = None
    /\ input_buffer = <<>>
    /\ output_buffer = <<>>
    /\ port_handle = None
    /\ chan = <<>>
    /\ workers = <<>>
    /\ nreads = 0
    /\ appended = <<>>
    /\ last = Did("new", "refresh_ports")

Update ==
    \/ UpdateIdle
    \/ UpdatePanic
    \/ UpdateRefresh
    \/ UpdateSelectPort
    \/ UpdateConnect
    \/ UpdateDisconnect
    \/ UpdateEditInput
    \/ UpdateSend

Next == Update \/ WorkerStep

Spec == Init /\ [][Next]_vars

(* ctx.request_repaint() (line 170) schedules the next redraw after every *)
(* redraw, and the OS schedules every thread.                              *)
FairSpec ==
    /\ Spec
    /\ WF_vars(Update)
    /\ \A i \in 1..MaxConnects : WF_vars(Worker(i))

(* disconnect_port called on the app directly, whatever port_handle holds, *)
(* as a caller of the method (not the window) may do: lines 85-87 alone,  *)
(* without the redraw around them.                                        *)
CallDisconnect ==
    /\ status = "running"
    /\ disconnect_port
    /\ UNCHANGED <<status, available_ports, selected_port, input_buffer, output_buffer,
                   chan, workers, nreads, appended>>

ApiNext == Next \/ CallDisconnect

(* The program with disconnect_port also called outside the button's guard. *)
ApiSpec == Init /\ [][ApiNext]_vars

(* The program one chunk into its first session: COM1 is open, its reader *)
(* has read "é", sent it, and a redraw has shown it.  Reads and appends   *)
(* are counted from here.                                                 *)
InitShown ==
    /\ status = "running"
    /\ available_ports = <<"COM1">>
    /\ selected_port = "COM1"
    /\ input_buffer = <<>>
    /\ output_buffer = <<195, 169>>
    /\ port_handle = "COM1"
    /\ chan = <<>>
    /\ workers = <<NewWorker("COM1")>>
    /\ nreads = 0
    /\ appended = <<>>
    /\ last = Did("update", "idle")

(* The program from there on, with redraws and threads scheduled fairly. *)
FairShownSpec ==
    /\ InitShown /\ [][Next]_vars
    /\ WF_vars(Update)
    /\ \A i \in 1..MaxConnects : WF_vars(Worker(i))

----------------------------------------------------------------------------
(* Sessions, threads and handles *)

(* The loop of lines 66-75 has no break and no return, and its one panic, *)
(* the unwrap of line 70, needs rx dropped, which the app never does: a   *)
(* thread lives as long as the process.                                    *)
WorkerAlive(i) == status = "running" /\ i \in Workers

(* The handle of line 62 is owned by the thread's closure. *)
CloneHeld(i) == WorkerAlive(i) /\ workers[i].port # None

(* The handle of line 60, while the session that spawned thread i lasts. *)
ForegroundHeld(i) ==
    /\ status = "running"
    /\ i \in Workers
    /\ i = Len(workers)
    /\ port_handle # None

(* The session that spawned thread i is over: disconnect_port has run     *)
(* since, or the process is gone.                                          *)
SessionEnded(i) ==
    /\ i \in Workers
    /\ (status = "panicked" \/ port_handle = None \/ i < Len(workers))

(* The step puts a chunk of thread i on the channel. *)
Pushes(i) ==
    /\ Len(chan') = Len(chan) + 1
    /\ chan'[Len(chan')].from = i

----------------------------------------------------------------------------
(* C1: at most one reader thread spawned by connect_port is alive, in     *)
(* every reachable state.                                                  *)
C1_AtMostOneWorkerAlive == Cardinality({i \in Workers : WorkerAlive(i)}) <= 1

(* C2: once the session of a reader thread has been disconnected, the     *)
(* thread eventually leaves its read loop.                                 *)
C2_DisconnectStopsWorker ==
    \A i \in 1..MaxConnects : [](SessionEnded(i) => <>(~WorkerAlive(i)))

(* C3: after disconnect_port has returned, the thread of the ended        *)
(* session puts no further chunk on the channel (so that the buffer       *)
(* stops changing once the chunks queued by then are drained).            *)
C3_NoPushAfterDisconnect ==
    [][\A i \in Workers : SessionEnded(i) => ~Pushes(i)]_vars

(* C4: once a session has been disconnected, no handle to its port stays  *)
(* open: the foreground handle is gone and the thread's clone is          *)
(* eventually closed.                                                      *)
C4_HandlesClosed ==
    \A i \in 1..MaxConnects :
        [](SessionEnded(i) => <>(~ForegroundHeld(i) /\ ~CloneHeld(i)))

(* C5: while port_handle is held no step spawns a reader thread: a second *)
(* connect without a disconnect in between is not accepted, so a session  *)
(* never has two threads.                                                  *)
C5_NoSpawnWhileConnected ==
    [][port_handle # None => Len(workers') = Len(workers)]_vars

(* C5 witness: a redraw has run while the port was held by a session with *)
(* its one thread, and offered no connect.                                 *)
C5_Witness ==
    /\ status = "running"
    /\ port_handle # None
    /\ ~connect_offered
    /\ Len(workers) = 1
    /\ last.op \in {"update", "send_data", "refresh_ports"}

(* C6: a connect_port whose open() fails leaves port_handle None, spawns  *)
(* no thread and leaves every field as the redraw's drain left it.        *)
C6_FailedOpenChangesNothing ==
    [][last'.op = "connect_port" /\ last'.branch = "open_err" =>
          /\ port_handle = None /\ port_handle' = None
          /\ workers' = workers
          /\ output_buffer' = Drained.buf
          /\ status' = status
          /\ selected_port' = selected_port
          /\ input_buffer' = input_buffer
          /\ available_ports' = available_ports]_vars

(* C6 witness: open() has just failed for a selected port. *)
C6_Witness ==
    /\ last.op = "connect_port"
    /\ last.branch = "open_err"
    /\ selected_port # None
    /\ port_handle = None

(* C7: the chunks are appended to output_buffer in the order in which     *)
(* they were read, none twice (the ids number the reads).                  *)
C7_AppendedInReadOrder ==
    \A j, k \in 1..Len(appended) : j < k => appended[j] < appended[k]

(* C8: output_buffer is never longer than the maximum (in bytes, as       *)
(* String::len counts).                                                    *)
C8_BufferWithinMax == Len(output_buffer) <= OutputMax

(* The append C9 describes: the last min(max, len) of old followed by new. *)
ClaimedAppend(old, new) ==
    LET cat == old \o new
        n == IF Len(cat) < OutputMax THEN Len(cat) ELSE OutputMax
    IN  SubSeq(cat, Len(cat) - n + 1, Len(cat))

RECURSIVE ClaimedDrain(_, _)
ClaimedDrain(buf, queue) ==
    IF queue = <<>> THEN buf
    ELSE ClaimedDrain(ClaimedAppend(buf, Head(queue).data), Tail(queue))

(* C9: every chunk a redraw takes from the channel is appended as C9      *)
(* describes: output_buffer becomes the last min(max, len) bytes of the   *)
(* old buffer followed by the chunk.                                       *)
C9_AppendKeepsNewestMax ==
    [][Len(chan') < Len(chan) =>
          output_buffer' =
              ClaimedDrain(output_buffer, SubSeq(chan, 1, Len(chan) - Len(chan')))]_vars

C11_FailedWriteChangesNothing ==
    [][last'.op = "send_data" /\ last'.branch = "write_err" =>
          /\ port_handle # None /\ port_handle' = port_handle
          /\ workers' = workers
          /\ input_buffer' = input_buffer
          /\ output_buffer' = Drained.buf
          /\ status' = status
          /\ selected_port' = selected_port
          /\ available_ports' = available_ports]_vars

(* C11 witness: write() has just failed with text typed in the input line. *)
C11_Witness ==
    /\ last.op = "send_data"
    /\ last.branch = "write_err"
    /\ port_handle # None
    /\ input_buffer # <<>>

(* C12: disconnect_port called while port_handle is already None changes  *)
(* no state and reports no error, so a second disconnect after a first    *)
(* leaves what the first left.                                            *)
C12_DisconnectIdempotent ==
    [][last'.op = "disconnect_port" /\ port_handle = None =>
          /\ last'.branch = "was_none"
          /\ last'.ret = Unit
          /\ port_handle' = None
          /\ input_buffer' = input_buffer
          /\ output_buffer' = output_buffer
          /\ workers' = workers
          /\ chan' = chan
          /\ status' = status
          /\ selected_port' = selected_port
          /\ available_ports' = available_ports]_vars

(* C12 witness: disconnect_port has run on a session that an earlier      *)
(* disconnect had already ended.                                          *)
C12_Witness ==
    /\ last.op = "disconnect_port"
    /\ last.branch = "was_none"
    /\ port_handle = None
    /\ Len(workers) >= 1

(* C13: the drain step of a redraw completes: with an empty channel it    *)
(* leaves output_buffer as it was, and otherwise it takes every chunk     *)
(* queued, in arrival order, with the trim to the newest OutputMax after  *)
(* each append.                                                           *)
C13_DrainTakesQueue ==
    [][last'.op \notin {"worker_read", "worker_send"} =>
          /\ chan = <<>> => output_buffer' = output_buffer
          /\ chan # <<>> => /\ chan' = <<>>
                            /\ output_buffer' = ClaimedDrain(output_buffer, chan)]_vars

AliveWorkers == {i \in Workers : WorkerAlive(i)}

(* C15: a read that returns a hard I/O error ends the loop of the thread   *)
(* that made it: after such a read one thread fewer is running.           *)
C15_HardErrorStopsWorker ==
    [][last'.op = "worker_read" /\ last'.branch = "BrokenPipe" =>
          Cardinality(AliveWorkers') < Cardinality(AliveWorkers)]_vars

(* C16: a read of bytes that are not UTF-8, of zero bytes, or a timeout,  *)
(* pushes nothing and leaves every thread where it was, in its loop and   *)
(* about to read again.                                                   *)
C16_BadReadKeepsWorker ==
    [][last'.op = "worker_read" /\ last'.branch \in {"not_utf8", "zero", "TimedOut"} =>
          /\ chan' = chan
          /\ workers' = workers
          /\ status' = "running"
          /\ \A i \in Workers : workers'[i].pc \in {"read", "send"}]_vars

(* C16 witness: a thread has just read bytes that are not UTF-8 and is    *)
(* at its next read.                                                      *)
C16_Witness ==
    /\ last.op = "worker_read"
    /\ last.branch = "not_utf8"
    /\ status = "running"
    /\ chan = <<>>
    /\ \E i \in Workers : workers[i].pc = "read"

(* C17: a send whose write() returns Ok hands the bytes of input_buffer,  *)
(* as they are, to one write() on the held port and then empties          *)
(* input_buffer, however many bytes the write took; port_handle and       *)
(* output_buffer are left alone.                                          *)
C17_SendWritesAndClears ==
    [][last'.op = "send_data" /\ last'.branch = "write_ok" =>
          /\ port_handle # None
          /\ last'.write.port = port_handle
          /\ last'.write.bytes = input_buffer
          /\ last'.write.result.ok
          /\ last'.ret = Unit
          /\ input_buffer' = <<>>
          /\ port_handle' = port_handle
          /\ output_buffer' = Drained.buf]_vars

(* C17 witness: a write() that took fewer bytes than it was given has     *)
(* returned Ok, and the input line is empty.                              *)
C17_Witness ==
    /\ last.op = "send_data"
    /\ last.branch = "write_ok"
    /\ last.write.result.n < Len(last.write.bytes)
    /\ input_buffer = <<>>
    /\ port_handle # None

(* C18: a connect_port that succeeds, from a session with no handle,      *)
(* stores the opened handle in port_handle and spawns exactly one thread, *)
(* reading a clone of that handle; a running session that holds a handle  *)
(* has the thread spawned for it; and connect_port with no port selected  *)
(* changes nothing.                                                       *)
C18_ConnectStoresAndSpawns ==
    [][/\ last'.op = "connect_port" /\ last'.branch = "spawned" =>
             /\ port_handle = None
             /\ selected_port # None
             /\ port_handle' = selected_port
             /\ workers' = Append(workers, NewWorker(selected_port))
             /\ status' = "running"
       /\ last'.op = "connect_port" /\ last'.branch = "no_port_selected" =>
             /\ selected_port = None
             /\ port_handle' = port_handle
             /\ workers' = workers
             /\ status' = status
             /\ input_buffer' = input_buffer
             /\ output_buffer' = Drained.buf
             /\ selected_port' = selected_port
             /\ available_ports' = available_ports
       /\ status' = "running" /\ port_handle' # None =>
             /\ Len(workers') >= 1
             /\ workers'[Len(workers')].port = port_handle']_vars

(* C18 witness: connect_port has just opened the selected port and        *)
(* spawned the first reader.                                              *)
C18_Witness ==
    /\ last.op = "connect_port"
    /\ last.branch = "spawned"
    /\ port_handle # None
    /\ port_handle = selected_port
    /\ Len(workers) = 1
    /\ workers[1] = NewWorker(port_handle)

(* C19: every chunk a redraw appends while a session holds its handle was *)
(* sent by the thread of that session, the last one spawned.              *)
C19_ChunksFromOwnWorker ==
    [][port_handle # None =>
          \A k \in 1..(Len(chan) - Len(chan')) : chan[k].from = Len(workers)]_vars

(* The chunk read as number id is queued in the channel. *)
InChan(id) == \E k \in 1..Len(chan) : chan[k].id = id

(* The chunk read as number id has been pushed onto output_buffer. *)
IsAppended(id) == \E k \in 1..Len(appended) : appended[k] = id

(* C20: every chunk sent on the channel is eventually appended to         *)
(* output_buffer, redraws being scheduled fairly.                         *)
C20_SentIsAppended ==
    \A id \in 1..MaxReads : [](InChan(id) => <>IsAppended(id))

====
